---- MODULE Spec2Model ----
(***************************************************************************)
(* The giveaway/referral service of BLUE-SKYTRON.  The repository holds    *)
(* three entry points that serve the same routes against the database      *)
(* named by DATABASE_URL:                                                  *)
(*   "app"    src/app.js            express-session + passport session     *)
(*   "server" src/server.js         signed token (JWT) in a cookie         *)
(*   "part"   src/unnamed/part_000  passport without any session support   *)
(* The database (User, Giveaway, Referral) outlives a process; the session *)
(* store and the handlers in flight live in the process.                   *)
(*                                                                         *)
(* A route handler with one storage call is one action (the call is its    *)
(* only shared effect).  POST /giveaway/:code/join awaits three storage    *)
(* calls and is one action per call plus the response.  POST /login reads  *)
(* only User rows, which no route changes or deletes, and is one action.   *)
(***************************************************************************)
EXTENDS Integers, Sequences, FiniteSets, TLC

\* ---------------------------------------------------------------- bounds
MaxUsers == 2
MaxGiveaways == 2
MaxReferrals == 3
MaxSessions == 2
MaxRestarts == 1
MaxFailures == 1
MaxTime == 4

\* expiresIn: '1h', in ticks of the clock (one tick: half an hour)
Expiry == 2

\* ---------------------------------------------------------- input values
Variants == {"app", "server", "part"}
Clients == {"c1", "c2"}
\* a body field that the request does not carry (JavaScript undefined)
NoField == "undefined"
Usernames == {"alice", "bob"}
Passwords == {"pw1", "pw2"}
Salts == {"s1"}
\* the values DataTypes.UUIDV4 can generate
Codes == {"u1", "u2"}
RoomInputs == {"room", "", NoField}
LinkInputs == {"https://t.me/ch", "", NoField}
NameInputs == {"bob", "", NoField}
\* fields a client can add to the body of POST /create-giveaway
ExtraInputs == {[ownerId |-> 0, code |-> NoField, referralCount |-> 0],
                [ownerId |-> 2, code |-> "u1", referralCount |-> 7]}

VARIABLES
  variant,    \* the entry point the running process was started from
  restarts,   \* number of process restarts so far
  failures,   \* number of storage calls that have rejected so far
  now,        \* the clock jwt.sign and jwt.verify read, in ticks
  User,       \* table User: sequence of rows, id = index
  Giveaway,   \* table Giveaway: sequence of rows, id = index
  Referral,   \* table Referral: sequence of rows, id = index
  sessions,   \* express-session MemoryStore: rows [sid, user (passport.user)]
  nextSid,    \* number of session ids generated so far
  cookie,     \* each client's cookie jar
  principal,  \* per client and cookie: the user whose password earned it
  revoked,    \* the ids of the sessions a logout has ended
  req,        \* each client's join handler in flight
  last        \* the request that completed last, and its response

vars == <<variant, restarts, failures, now, User, Giveaway, Referral,
          sessions, nextSid, cookie, principal, revoked, req, last>>

db == <<User, Giveaway, Referral>>
proc == <<variant, restarts, failures, now>>
auth == <<sessions, nextSid, cookie, principal, revoked>>

\* ------------------------------------------------------------ helpers
\* JavaScript truthiness of a body field: undefined and "" are falsy
Falsy(v) == v = NoField \/ v = ""

\* bcrypt.hash(password, 10): a digest that embeds the salt it was made with
Hash(pw, salt) == <<salt, pw>>

\* bcrypt.compare(password, digest): recompute with the digest's salt
Compare(pw, digest) == Hash(pw, digest[1]) = digest

\* process.env.JWT_SECRET, and a key that is not it
Secret == "JWT_SECRET"

\* a cookie jar: connect.sid (0: none) and jwt (id 0: none); a token is its
\* payload (id, username, iat, exp) and the key that signed it
NoToken == [id |-> 0, username |-> "", iat |-> 0, exp |-> 0, key |-> ""]
NoCookie == [sid |-> 0, jwt |-> NoToken]
NoPrincipal == [sid |-> 0, jwt |-> 0]

NoResp == [status |-> "none", target |-> "", data |-> {}]
Redirect(to) == [status |-> "redirect", target |-> to, data |-> {}]
Render(view, data) == [status |-> "render", target |-> view, data |-> data]
NotFound == [status |-> "404", target |-> "Giveaway not found.", data |-> {}]
\* next(err): express's default error handler answers 500
ServerError == [status |-> "500", target |-> "", data |-> {}]

\* `/giveaway/${req.params.code}/join`
JoinFormPath(code) == "/giveaway/" \o code \o "/join"

NoExtra == [ownerId |-> 0, code |-> NoField, referralCount |-> 0]

\* a completed request: its route, client and body fields (a1, a2, and x:
\* the other fields of the body), req.user.id (0: none), the user whose
\* login earned the proof it carried (0: none), whether the handler body
\* ran, the UUID generated for it, the row it inserted (0: none), whether
\* the join saved the counter, the identity proofs it issued, the response
Done == [op |-> "none", client |-> "", a1 |-> "", a2 |-> "", x |-> NoExtra,
         user |-> 0, prin |-> 0, body |-> FALSE, uuid |-> "", new |-> 0,
         saved |-> FALSE, proofs |-> 0, tok |-> NoToken, at |-> 0, sid |-> 0,
         resp |-> NoResp]

Completed(c, op) == [Done EXCEPT !.client = c, !.op = op]

\* a completed request to a route behind authenticateJWT: the token it
\* carried and the time jwt.verify ran
Verified(c, op) ==
  [Completed(c, op) EXCEPT !.tok = cookie[c].jwt, !.at = now]

\* a join handler: where it is, req.params.code, req.body.referrerName, the
\* instance findOne returned (id, referralCount, channelLink), the id of the
\* Referral row it created, and whether no other join handler has been in
\* flight since it started
Idle == [pc |-> "idle", code |-> "", name |-> "", gid |-> 0, cnt |-> 0,
         link |-> "", row |-> 0, alone |-> TRUE]

Busy(c) == req[c].pc \in {"create", "save", "respond"}

\* a join handler that ended without a response: rejected (a storage call
\* rejected and nothing caught it) or crashed (the process stopped)
Ended(how, row) == [Idle EXCEPT !.pc = how, !.row = row]

\* ------------------------------------------------------------ storage
\* User.findOne({ where: { username } }): the id of the row, 0 for null
FindUser(username) ==
  IF \E i \in DOMAIN User : User[i].username = username
  THEN CHOOSE i \in DOMAIN User : User[i].username = username
  ELSE 0

\* Giveaway.findOne() without the where clause: the first row
FindFirstGiveaway(code) == IF Giveaway = <<>> THEN 0 ELSE 1

\* Giveaway.findOne({ where: { code } }): the id of the row, 0 for null
FindGiveaway(code) ==
  IF \E i \in DOMAIN Giveaway : Giveaway[i].code = code
  THEN CHOOSE i \in DOMAIN Giveaway : Giveaway[i].code = code
  ELSE 0

\* User.create: allowNull: false on both columns, unique: true on username
UserCreateOk(row) ==
  /\ row.username # NoField
  /\ \A i \in DOMAIN User : User[i].username # row.username

\* Giveaway.create on a table whose code column lost unique: true
GiveawayCreateNoUnique(row) ==
  /\ row.roomName # NoField
  /\ row.channelLink # NoField

\* Giveaway.create: allowNull: false on roomName and channelLink,
\* unique: true on code
GiveawayCreateOk(row) ==
  /\ row.roomName # NoField
  /\ row.channelLink # NoField
  /\ \A i \in DOMAIN Giveaway : Giveaway[i].code # row.code

\* Referral.create on a table with a unique key (giveawayId, referrerName)
ReferralCreateOnce(row) ==
  /\ row.referrerName # NoField
  /\ \A r \in DOMAIN Referral : Referral[r] # row

\* Referral.create: allowNull: false on referrerName
ReferralCreateOk(row) == row.referrerName # NoField

\* the Referral rows of a giveaway (include: { model: Referral })
ReferralsOf(g) == {r \in DOMAIN Referral : Referral[r].giveawayId = g}

\* ------------------------------------------------------------ initial
\* a process started on an empty database
Init ==
  /\ variant \in Variants
  /\ restarts = 0
  /\ failures = 0
  /\ now = 0
  /\ User = <<>>
  /\ Giveaway = <<>>
  /\ Referral = <<>>
  /\ sessions = {}
  /\ nextSid = 0
  /\ cookie = [c \in Clients |-> NoCookie]
  /\ principal = [c \in Clients |-> NoPrincipal]
  /\ revoked = {}
  /\ req = [c \in Clients |-> Idle]
  /\ last = Done

\* ------------------------------------------------------------ signup
\* POST /signup
Signup(c, username, password) ==
  /\ \E salt \in Salts :
       LET row == [username |-> username,
                   passwordHash |-> Hash(password, salt)]
       IN \* bcrypt.hash throws on undefined, User.create on a bad row
          IF password # NoField /\ UserCreateOk(row)
          THEN /\ Len(User) < MaxUsers
               /\ User' = Append(User, row)
               /\ last' = [Completed(c, "signup") EXCEPT
                             !.a1 = username, !.a2 = password,
                             !.new = Len(User) + 1,
                             !.resp = Redirect("/login")]
          ELSE /\ User' = User
               /\ last' = [Completed(c, "signup") EXCEPT
                             !.a1 = username, !.a2 = password,
                             !.resp = Redirect("/signup")]
  /\ UNCHANGED <<proc, Giveaway, Referral, auth, req>>

\* ------------------------------------------------- identity resolution
\* passport.session() + deserializeUser (app.js): the id of req.user, 0 if
\* the cookie names no stored session or User.findByPk finds no row
SessionUser(c) ==
  IF \E s \in sessions : s.sid = cookie[c].sid
  THEN LET s == CHOOSE s \in sessions : s.sid = cookie[c].sid
       IN IF s.user \in DOMAIN User THEN s.user ELSE 0
  ELSE 0

\* jwt.verify that does not look at exp (ignoreExpiration: true)
TokenUserNoExpiry(c) ==
  IF cookie[c].jwt.key = Secret THEN cookie[c].jwt.id ELSE 0

\* jwt.verify of req.cookies.jwt (server.js): the decoded id; 0 if there is
\* no token, the signature does not verify under JWT_SECRET, or the clock
\* has reached exp
TokenUser(c) ==
  IF cookie[c].jwt.key = Secret /\ now < cookie[c].jwt.exp
  THEN cookie[c].jwt.id
  ELSE 0

\* req.user.id as the gate of an owner-only route finds it, 0 for none.
\* part_000 installs neither a session nor a strategy that runs on these
\* routes, so req.user is never set there.
ResolveUser(c) ==
  CASE variant = "app" -> SessionUser(c)
    [] variant = "server" -> TokenUser(c)
    [] OTHER -> 0

\* a gate that calls next() for every request
GateOpen(c) == TRUE

\* ensureAuthenticated / authenticateJWT: next() or redirect('/login')
Gate(c) == ResolveUser(c) # 0

\* the user whose login earned the cookie this entry point reads
Principal(c) ==
  CASE variant = "app" -> principal[c].sid
    [] variant = "server" -> principal[c].jwt
    [] OTHER -> 0

\* a completed request to an owner-only route, with the proof the entry
\* point read from it
Arrived(c, op) ==
  CASE variant = "server" -> Verified(c, op)
    [] variant = "app" -> [Completed(c, op) EXCEPT !.sid = cookie[c].sid]
    [] OTHER -> Completed(c, op)

\* ------------------------------------------------------------- login
\* the verify callback's verdict: the user id, 0 for done(null, false)
Verify(username, password) ==
  LET u == FindUser(username)
  IN IF u = 0 THEN 0
     ELSE IF Compare(password, User[u].passwordHash) THEN u ELSE 0

\* a store that destroys nothing
DestroyNothing(store, sid) == store

\* store.destroy(sid), as session.regenerate calls it
Destroy(store, sid) == {s \in store : s.sid # sid}

\* the info the verify callback (or passport-local itself, on a falsy
\* field) hands to passport with its verdict; "" with done(null, user)
VerifyInfo(username, password) ==
  IF Falsy(username) \/ Falsy(password) THEN "Missing credentials"
  ELSE IF FindUser(username) = 0 THEN "Incorrect username."
  ELSE IF Verify(username, password) = 0 THEN "Incorrect password."
  ELSE ""

\* a failure response that shows the info (failureMessage / a query string)
FailureResponseWithInfo(info) == Redirect("/login?error=" \o info)

\* the response to a failed login: failureRedirect: '/login' in app.js and
\* part_000, `if (!user) return res.redirect('/login')` in server.js; the
\* info is dropped
FailureResponse(info) == Redirect("/login")

\* jwt.sign({ id: user.id, username: user.username }, JWT_SECRET,
\* { expiresIn: '1h' })
SignToken(u) ==
  [id |-> u, username |-> User[u].username, iat |-> now,
   exp |-> now + Expiry, key |-> Secret]

\* serializeUser: what the session keeps of the user (app.js: user.id)
SerializeUser(u) == u

\* POST /login: passport-local fails at once on a falsy field; otherwise
\* User.findOne resolves or rejects, bcrypt.compare, done(...), and what
\* passport.authenticate / the custom callback does with the verdict.
\* partOutcome: req.logIn without session support either fails with
\* next(err) or redirects, depending on the passport release.
Login(c, username, password) ==
  LET u == Verify(username, password)
      end(r, n) == [Completed(c, "login") EXCEPT
                      !.a1 = username, !.a2 = password, !.user = u,
                      !.proofs = n, !.resp = r]
  IN
  /\ IF Falsy(username) \/ Falsy(password)
     THEN /\ last' = [end(FailureResponse(VerifyInfo(username, password)),
                           0) EXCEPT !.user = 0]
          /\ UNCHANGED auth
     ELSE IF u = 0
     THEN /\ last' = end(FailureResponse(VerifyInfo(username, password)), 0)
          /\ UNCHANGED auth
     ELSE CASE variant = "app" ->
                    \* req.logIn: regenerate the session, serializeUser
                    /\ nextSid < MaxSessions
                    /\ nextSid' = nextSid + 1
                    /\ sessions' = Destroy(sessions, cookie[c].sid)
                         \cup {[sid |-> nextSid + 1,
                                user |-> SerializeUser(u)]}
                    /\ cookie' = [cookie EXCEPT ![c].sid = nextSid + 1]
                    /\ principal' = [principal EXCEPT ![c].sid = u]
                    /\ UNCHANGED revoked
                    /\ last' = end(Redirect("/dashboard"), 1)
               [] variant = "server" ->
                    \* jwt.sign, res.cookie('jwt', token)
                    /\ cookie' = [cookie EXCEPT ![c].jwt = SignToken(u)]
                    /\ principal' = [principal EXCEPT ![c].jwt = u]
                    /\ last' = end(Redirect("/dashboard"), 1)
                    /\ UNCHANGED <<sessions, nextSid, revoked>>
               [] OTHER ->
                    /\ \E partOutcome \in {ServerError,
                                            Redirect("/dashboard")} :
                          last' = end(partOutcome, 0)
                    /\ UNCHANGED auth
  /\ UNCHANGED <<proc, db, req>>

\* POST /login when User.findOne rejects: done(err), next(err)
LoginError(c, username, password) ==
  /\ ~Falsy(username) /\ ~Falsy(password)
  /\ last' = [Completed(c, "login") EXCEPT !.a1 = username,
                !.a2 = password, !.resp = ServerError]
  /\ UNCHANGED <<proc, db, auth, req>>

\* GET /logout (app.js only): req.logout removes the user from the session
\* and regenerates it, which destroys the stored one; the new session is
\* empty and is not saved (saveUninitialized: false), so no cookie is set
\* and the browser keeps the one it has
Logout(c) ==
  /\ variant = "app"
  /\ sessions' = Destroy(sessions, cookie[c].sid)
  /\ principal' = [principal EXCEPT ![c].sid = 0]
  /\ revoked' = revoked \cup ({cookie[c].sid} \ {0})
  /\ last' = [Completed(c, "logout") EXCEPT !.resp = Redirect("/")]
  /\ UNCHANGED <<proc, db, nextSid, cookie, req>>

\* ------------------------------------------------------- process start
\* the process stops and one of the entry points starts: sequelize.sync()
\* keeps the tables, the session store starts empty, the handlers in
\* flight are gone without a response
Restart(v) ==
  /\ restarts < MaxRestarts
  /\ restarts' = restarts + 1
  /\ variant' = v
  /\ sessions' = {}
  /\ principal' = [c \in Clients |-> [principal[c] EXCEPT !.sid = 0]]
  /\ req' = [c \in Clients |->
               IF Busy(c) THEN Ended("crashed", req[c].row) ELSE req[c]]
  /\ UNCHANGED <<failures, now, db, nextSid, cookie, revoked, last>>

\* ------------------------------------------------------ owner-only routes
\* Giveaway.findAll({ include: referrals }) without the where clause
FindAllAnyOwner(u) ==
  {[id |-> g, referrals |-> ReferralsOf(g)] : g \in DOMAIN Giveaway}

\* Giveaway.findAll({ where: { ownerId }, include: referrals })
FindAllByOwner(u) ==
  {[id |-> g, referrals |-> ReferralsOf(g)] :
     g \in {i \in DOMAIN Giveaway : Giveaway[i].ownerId = u}}

\* GET /dashboard
Dashboard(c) ==
  /\ last' = IF Gate(c)
             THEN [Arrived(c, "dashboard") EXCEPT
                     !.user = ResolveUser(c), !.prin = Principal(c),
                     !.body = TRUE,
                     !.resp = Render("dashboard",
                                     FindAllByOwner(ResolveUser(c)))]
             ELSE [Arrived(c, "dashboard") EXCEPT
                     !.prin = Principal(c), !.resp = Redirect("/login")]
  /\ UNCHANGED <<proc, db, auth, req>>

\* GET /create-giveaway
CreateForm(c) ==
  /\ last' = IF Gate(c)
             THEN [Arrived(c, "create-form") EXCEPT
                     !.user = ResolveUser(c), !.prin = Principal(c),
                     !.body = TRUE,
                     !.resp = Render("create_giveaway", {})]
             ELSE [Arrived(c, "create-form") EXCEPT
                     !.prin = Principal(c), !.resp = Redirect("/login")]
  /\ UNCHANGED <<proc, db, auth, req>>

\* Giveaway.create({ ownerId: req.user.id, ...req.body }): the body's own
\* ownerId and referralCount win
GiveawayRowFromBody(roomName, channelLink, extra, user, uuid) ==
  [roomName |-> roomName, channelLink |-> channelLink, code |-> uuid,
   ownerId |-> IF extra.ownerId # 0 THEN extra.ownerId ELSE user,
   referralCount |-> extra.referralCount]

\* the row Giveaway.create({ roomName, channelLink, ownerId: req.user.id })
\* inserts: code and referralCount take their defaults
GiveawayRow(roomName, channelLink, extra, user, uuid) ==
  [roomName |-> roomName, channelLink |-> channelLink, code |-> uuid,
   ownerId |-> user, referralCount |-> 0]

\* POST /create-giveaway.  A rejected Giveaway.create is caught in app.js
\* and server.js; part_000 has no try/catch and sends nothing.
CreateGiveaway(c, roomName, channelLink, extra, uuid) ==
  LET u == ResolveUser(c)
      row == GiveawayRow(roomName, channelLink, extra, u, uuid)
      end == [Arrived(c, "create") EXCEPT !.a1 = roomName,
                !.a2 = channelLink, !.x = extra, !.prin = Principal(c)]
  IN
  /\ IF ~Gate(c)
     THEN /\ last' = [end EXCEPT !.resp = Redirect("/login")]
          /\ UNCHANGED Giveaway
     ELSE IF GiveawayCreateOk(row)
     THEN /\ Len(Giveaway) < MaxGiveaways
          /\ Giveaway' = Append(Giveaway, row)
          /\ last' = [end EXCEPT !.user = u, !.body = TRUE, !.uuid = uuid,
                        !.new = Len(Giveaway) + 1,
                        !.resp = Redirect("/dashboard")]
     ELSE /\ last' = [end EXCEPT !.user = u, !.body = TRUE, !.uuid = uuid,
                        !.resp = IF variant = "part" THEN NoResp
                                 ELSE Redirect("/create-giveaway")]
          /\ UNCHANGED Giveaway
  /\ UNCHANGED <<proc, User, Referral, auth, req>>

\* ------------------------------------------------------- public routes
\* GET /
ListGiveaways(c) ==
  /\ last' = [Completed(c, "list") EXCEPT
                !.resp = Render("index", DOMAIN Giveaway)]
  /\ UNCHANGED <<proc, db, auth, req>>

\* GET /giveaway/:code/join
ViewJoinForm(c, code) ==
  /\ last' = [Completed(c, "join-form") EXCEPT !.a1 = code,
                !.resp = IF FindGiveaway(code) = 0 THEN NotFound
                         ELSE Render("join_giveaway",
                                     {FindGiveaway(code)})]
  /\ UNCHANGED <<proc, db, auth, req>>

\* ------------------------------------------------------------- join
\* whether POST /giveaway/:code/join re-prompts instead of recording:
\* app.js and server.js test !referrerName, part_000 has no such test
Reprompts(name) == variant # "part" /\ Falsy(name)

\* the clients whose join handler is about to insert its row
Creating == {d \in Clients : req[d].pc = "create"}

\* POST /giveaway/:code/join, up to the first write: findOne, the 404, the
\* test of referrerName.  A handler starts only while the table has room
\* for its row.
JoinFind(c, code, name) ==
  /\ ~Busy(c)
  /\ LET g == FindGiveaway(code)
         end(r) == [Completed(c, "join") EXCEPT !.a1 = code,
                      !.a2 = name, !.resp = r]
     IN IF g = 0
        THEN /\ last' = end(NotFound)
             /\ req' = [req EXCEPT ![c] = Idle]
        ELSE IF Reprompts(name)
        THEN /\ last' = end(Redirect(JoinFormPath(code)))
             /\ req' = [req EXCEPT ![c] = Idle]
        ELSE /\ Len(Referral) + Cardinality(Creating) < MaxReferrals
             /\ last' = last
             /\ req' = [d \in Clients |->
                  IF d = c
                  THEN [pc |-> "create", code |-> code, name |-> name,
                        gid |-> g, cnt |-> Giveaway[g].referralCount,
                        link |-> Giveaway[g].channelLink, row |-> 0,
                        alone |-> \A e \in Clients \ {c} : ~Busy(e)]
                  ELSE IF Busy(d) THEN [req[d] EXCEPT !.alone = FALSE]
                  ELSE req[d]]
  /\ UNCHANGED <<proc, db, auth>>

\* a Referral.create whose rejection is swallowed: the handler goes on to
\* count a row that is not there
JoinCreateCaught(c, dbError) ==
  /\ req[c].pc = "create"
  /\ LET row == [giveawayId |-> req[c].gid, referrerName |-> req[c].name]
     IN IF ~ReferralCreateOk(row)
        THEN /\ req' = [req EXCEPT ![c].pc = "save"]
             /\ UNCHANGED <<Referral, failures>>
        ELSE IF dbError
        THEN /\ failures < MaxFailures
             /\ failures' = failures + 1
             /\ req' = [req EXCEPT ![c].pc = "save"]
             /\ UNCHANGED Referral
        ELSE /\ Len(Referral) < MaxReferrals
             /\ Referral' = Append(Referral, row)
             /\ req' = [req EXCEPT ![c].pc = "save",
                                   ![c].row = Len(Referral) + 1]
             /\ UNCHANGED failures
  /\ UNCHANGED <<variant, restarts, now, User, Giveaway, auth, last>>

\* await Referral.create({ giveawayId: giveaway.id, referrerName }).  A
\* rejection is not caught: the handler ends without a response.
JoinCreate(c, dbError) ==
  /\ req[c].pc = "create"
  /\ LET row == [giveawayId |-> req[c].gid, referrerName |-> req[c].name]
     IN IF ~ReferralCreateOk(row)
        THEN /\ req' = [req EXCEPT ![c] = Ended("rejected", req[c].row)]
             /\ UNCHANGED <<Referral, failures>>
        ELSE IF dbError
        THEN /\ failures < MaxFailures
             /\ failures' = failures + 1
             /\ req' = [req EXCEPT ![c] = Ended("rejected", req[c].row)]
             /\ UNCHANGED Referral
        ELSE /\ Len(Referral) < MaxReferrals
             /\ Referral' = Append(Referral, row)
             /\ req' = [req EXCEPT ![c].pc = "save",
                                   ![c].row = Len(Referral) + 1]
             /\ UNCHANGED failures
  /\ UNCHANGED <<variant, restarts, now, User, Giveaway, auth, last>>

\* the value giveaway.save() writes after giveaway.referralCount++: the
\* count the instance was loaded with, plus one
SavedCount(stored, loaded) == loaded + 1

\* a save() whose rejection is swallowed: the handler goes on to respond
JoinSaveCaught(c, dbError) ==
  /\ req[c].pc = "save"
  /\ IF dbError
     THEN /\ failures < MaxFailures
          /\ failures' = failures + 1
          /\ req' = [req EXCEPT ![c].pc = "respond", ![c].cnt = 0]
          /\ UNCHANGED Giveaway
     ELSE /\ Giveaway' = [Giveaway EXCEPT ![req[c].gid].referralCount =
                 req[c].cnt + 1]
          /\ req' = [req EXCEPT ![c].pc = "respond", ![c].cnt = 0]
          /\ UNCHANGED failures
  /\ UNCHANGED <<variant, restarts, now, User, Referral, auth, last>>

\* giveaway.referralCount++; await giveaway.save(): UPDATE ... SET
\* referralCount = <the instance's value> WHERE id = <giveaway.id>
JoinSave(c, dbError) ==
  /\ req[c].pc = "save"
  /\ IF dbError
     THEN /\ failures < MaxFailures
          /\ failures' = failures + 1
          /\ req' = [req EXCEPT ![c] = Ended("rejected", req[c].row)]
          /\ UNCHANGED Giveaway
     ELSE /\ Giveaway' = [Giveaway EXCEPT ![req[c].gid].referralCount =
                 SavedCount(Giveaway[req[c].gid].referralCount, req[c].cnt)]
          /\ req' = [req EXCEPT ![c].pc = "respond", ![c].cnt = 0]
          /\ UNCHANGED failures
  /\ UNCHANGED <<variant, restarts, now, User, Referral, auth, last>>

\* res.redirect(giveaway.channelLink)
JoinRedirect(c) ==
  /\ req[c].pc = "respond"
  /\ last' = [Completed(c, "join") EXCEPT !.a1 = req[c].code,
                !.a2 = req[c].name, !.body = TRUE, !.new = req[c].row,
                !.saved = TRUE, !.resp = Redirect(req[c].link)]
  /\ req' = [req EXCEPT ![c] = Idle]
  /\ UNCHANGED <<proc, db, auth>>

\* ------------------------------------------------------- environment
\* time passes
Tick ==
  /\ now < MaxTime
  /\ now' = now + 1
  /\ UNCHANGED <<variant, restarts, failures, db, auth, req, last>>

\* a client sends a jwt cookie it made itself: any payload, signed with a
\* key that is not JWT_SECRET
ForgeToken(c, u) ==
  /\ u \in DOMAIN User
  /\ cookie' = [cookie EXCEPT ![c].jwt =
                  [SignToken(u) EXCEPT !.key = "other"]]
  /\ principal' = [principal EXCEPT ![c].jwt = 0]
  /\ UNCHANGED <<proc, db, sessions, nextSid, revoked, req, last>>

\* a client sends the connect.sid cookie another client was issued
CopyCookie(c, d) ==
  /\ c # d
  /\ cookie[c].sid # 0
  /\ cookie' = [cookie EXCEPT ![d].sid = cookie[c].sid]
  /\ principal' = [principal EXCEPT ![d].sid = principal[c].sid]
  /\ UNCHANGED <<proc, db, sessions, nextSid, revoked, req, last>>

\* ------------------------------------------------------ specifications
AuthNext ==
  \/ \E c \in Clients, u \in Usernames \cup {NoField},
        p \in Passwords \cup {NoField} : Signup(c, u, p)
  \/ \E c \in Clients, u \in Usernames \cup {NoField},
        p \in Passwords \cup {NoField} : Login(c, u, p)
  \/ \E c \in Clients, u \in Usernames, p \in Passwords : LoginError(c, u, p)
  \/ \E c \in Clients : Logout(c)
  \/ \E c \in Clients : Dashboard(c)
  \/ \E c \in Clients : CreateForm(c)
  \/ \E c \in Clients, r \in RoomInputs, l \in LinkInputs,
        x \in ExtraInputs, uuid \in Codes : CreateGiveaway(c, r, l, x, uuid)
  \/ \E c \in Clients : ListGiveaways(c)

\* the join routes of a process that keeps running
HandlerNext ==
  \/ \E c \in Clients, code \in Codes : ViewJoinForm(c, code)
  \/ \E c \in Clients, code \in Codes, n \in NameInputs : JoinFind(c, code, n)
  \/ \E c \in Clients, e \in BOOLEAN : JoinCreate(c, e)
  \/ \E c \in Clients, e \in BOOLEAN : JoinSave(c, e)
  \/ \E c \in Clients : JoinRedirect(c)

JoinNext ==
  \/ HandlerNext
  \/ \E v \in Variants : Restart(v)

ClockNext ==
  \/ Tick
  \/ \E c \in Clients, u \in 1..MaxUsers : ForgeToken(c, u)

\* login and the owner-only reads, while time passes
TokenNext ==
  \/ \E c \in Clients, u \in Usernames, p \in Passwords : Login(c, u, p)
  \/ \E c \in Clients : Dashboard(c)
  \/ \E c \in Clients : CreateForm(c)
  \/ ClockNext

\* login, logout and the owner-only routes, with cookies that travel
SessionNext ==
  \/ \E c \in Clients, u \in Usernames, p \in Passwords : Login(c, u, p)
  \/ \E c \in Clients : Logout(c)
  \/ \E c \in Clients : Dashboard(c)
  \/ \E c \in Clients, r \in RoomInputs, l \in LinkInputs,
        x \in ExtraInputs, uuid \in Codes : CreateGiveaway(c, r, l, x, uuid)
  \/ \E c, d \in Clients : CopyCookie(c, d)

\* signup and login with every kind of field a form can send
SignupNext ==
  \/ \E c \in Clients, u \in Usernames \cup {"", NoField},
        p \in Passwords \cup {"", NoField} : Signup(c, u, p)
  \/ \E c \in Clients, u \in Usernames \cup {"", NoField},
        p \in Passwords \cup {"", NoField} : Login(c, u, p)

Next == AuthNext \/ JoinNext \/ ClockNext \/ SessionNext \/ SignupNext

\* the whole service, from an empty database
Spec == Init /\ [][Next]_vars

\* a process started on the database an earlier run left: alice and bob have
\* signed up and alice has created one giveaway that nobody joined yet
JoinInit ==
  /\ variant \in Variants
  /\ restarts = 0
  /\ failures = 0
  /\ now = 0
  /\ User = <<[username |-> "alice", passwordHash |-> Hash("pw1", "s1")],
              [username |-> "bob", passwordHash |-> Hash("pw2", "s1")]>>
  /\ Giveaway = <<[roomName |-> "room", channelLink |-> "https://t.me/ch",
                   code |-> "u1", ownerId |-> 1, referralCount |-> 0]>>
  /\ Referral = <<>>
  /\ sessions = {}
  /\ nextSid = 0
  /\ cookie = [c \in Clients |-> NoCookie]
  /\ principal = [c \in Clients |-> NoPrincipal]
  /\ revoked = {}
  /\ req = [c \in Clients |-> Idle]
  /\ last = Done

\* the join protocol on that database
JoinSpec == JoinInit /\ [][JoinNext]_vars

\* the event loop runs every continuation whose awaited call has settled
HandlerFairness ==
  \A c \in Clients :
    /\ WF_vars(\E e \in BOOLEAN : JoinCreate(c, e))
    /\ WF_vars(\E e \in BOOLEAN : JoinSave(c, e))
    /\ WF_vars(JoinRedirect(c))

\* the join routes of a process that keeps running, under that fairness
HandlerSpec == JoinInit /\ [][HandlerNext]_vars /\ HandlerFairness

\* a process started on the database an earlier run left: alice has signed
\* up and created one giveaway, which one visitor has joined
AuthInit ==
  /\ variant \in Variants
  /\ restarts = 0
  /\ failures = 0
  /\ now = 0
  /\ User = <<[username |-> "alice", passwordHash |-> Hash("pw1", "s1")]>>
  /\ Giveaway = <<[roomName |-> "room", channelLink |-> "https://t.me/ch",
                   code |-> "u1", ownerId |-> 1, referralCount |-> 1]>>
  /\ Referral = <<[giveawayId |-> 1, referrerName |-> "bob"]>>
  /\ sessions = {}
  /\ nextSid = 0
  /\ cookie = [c \in Clients |-> NoCookie]
  /\ principal = [c \in Clients |-> NoPrincipal]
  /\ revoked = {}
  /\ req = [c \in Clients |-> Idle]
  /\ last = Done

\* signup, login and the owner-only routes of one process on that database
AuthSpec == AuthInit /\ [][AuthNext]_vars

\* accounts, from an empty database
SignupSpec == Init /\ [][SignupNext]_vars

\* app.js started on the database of AuthInit
SessionInit ==
  /\ AuthInit
  /\ variant = "app"

\* the session variant
SessionSpec == SessionInit /\ [][SessionNext]_vars

\* server.js started on the database of JoinInit
TokenInit ==
  /\ JoinInit
  /\ variant = "server"

\* the token variant over time
TokenSpec == TokenInit /\ [][TokenNext]_vars

\* ------------------------------------------------------------- claims
Rows(g) == Cardinality(ReferralsOf(g))

\* C1: once every started join handler has finished, each giveaway's
\* referralCount equals the number of its Referral rows, also when the
\* steps of several handlers interleave (no storage call rejected, no
\* process stopped).
C1_CounterEqualsRows ==
  (restarts = 0 /\ failures = 0 /\ \A c \in Clients : ~Busy(c))
    => \A g \in DOMAIN Giveaway : Giveaway[g].referralCount = Rows(g)

\* C2: the Referral insert and the counter update of a join are one unit: a
\* handler that ended by a rejected storage call or a stopped process has
\* left no Referral row, and a saved counter has its Referral row.
C2_JoinWritesAtomic ==
  /\ \A c \in Clients :
       req[c].pc \in {"rejected", "crashed"}
         => req[c].row \notin DOMAIN Referral
  /\ (last.op = "join" /\ last.saved) => last.new \in DOMAIN Referral

\* C3: no step lowers the stored referralCount of a giveaway.
C3_CounterNeverDecreases ==
  [][\A g \in DOMAIN Giveaway :
       Giveaway'[g].referralCount >= Giveaway[g].referralCount]_vars

\* C4: in every variant a join of an existing code with an empty
\* referrerName (absent or "") creates no Referral row, leaves the counter
\* alone and redirects to the join form of that code.
C4_EmptyNameReprompts ==
  /\ \A c \in Clients : Busy(c) => ~Falsy(req[c].name)
  /\ \A r \in DOMAIN Referral : ~Falsy(Referral[r].referrerName)
  /\ (last.op = "join" /\ Falsy(last.a2) /\ FindGiveaway(last.a1) # 0)
       => /\ last.new = 0
          /\ ~last.saved
          /\ last.resp = Redirect(JoinFormPath(last.a1))

\* C5: the dashboard hands a giveaway and its referral rows only to the
\* user whose login earned the proof the request carried, and that user is
\* the giveaway's owner.
C5_DashboardOwnerOnly ==
  last.op = "dashboard" =>
    /\ last.resp.status = "render" => last.prin # 0
    /\ \A d \in last.resp.data :
         /\ d.id \in DOMAIN Giveaway
         /\ Giveaway[d.id].ownerId = last.prin
         /\ \A r \in d.referrals : Referral[r].giveawayId = d.id

\* C5 witness: alice's dashboard shows her joined giveaway while another
\* user's giveaway exists
C5_Witness ==
  /\ last.op = "dashboard"
  /\ last.body
  /\ \E d \in last.resp.data : d.referrals # {}
  /\ \E g \in DOMAIN Giveaway : Giveaway[g].ownerId # last.prin

OwnerOnly == {"dashboard", "create-form", "create"}

\* C6: an owner-only route runs its handler body only for a request whose
\* proof resolves, as the user that proof was issued to; a request with no
\* proof or an unresolvable one is redirected to /login, is handed no data
\* and writes nothing.
C6_GateBeforeBody ==
  last.op \in OwnerOnly =>
    /\ last.body => (last.prin # 0 /\ last.user = last.prin)
    /\ last.prin = 0 =>
         /\ ~last.body
         /\ last.resp = Redirect("/login")
         /\ last.new = 0

\* C6 witness: a valid create-giveaway request that carries the cookie of a
\* session that no longer exists is sent to /login
C6_Witness ==
  /\ last.op = "create"
  /\ variant = "app"
  /\ cookie[last.client].sid # 0
  /\ last.a1 = "room" /\ last.a2 = "https://t.me/ch"
  /\ ~last.body
  /\ last.resp = Redirect("/login")

\* C7: no two Giveaway rows have the same code, and a creation persists a
\* row only under a code no other row has.
C7_CodesUnique ==
  /\ \A i, j \in DOMAIN Giveaway :
       Giveaway[i].code = Giveaway[j].code => i = j
  /\ (last.op = "create" /\ last.new # 0)
       => /\ Giveaway[last.new].code = last.uuid
          /\ FindGiveaway(last.uuid) = last.new

\* C7 witness: a valid creation whose generated code is taken persisted
\* nothing
C7_Witness ==
  /\ last.op = "create"
  /\ last.body
  /\ last.a1 = "room" /\ last.a2 = "https://t.me/ch"
  /\ FindGiveaway(last.uuid) # 0
  /\ last.new = 0
  /\ Len(Giveaway) < MaxGiveaways

\* C8: a created giveaway is owned by the user the request's proof was
\* issued to and starts with referralCount 0, whatever ownerId, code or
\* referralCount the body carries.
C8_OwnerFromIdentity ==
  /\ \A g \in DOMAIN Giveaway : Giveaway[g].ownerId \in DOMAIN User
  /\ (last.op = "create" /\ last.new # 0)
       => /\ last.prin # 0
          /\ Giveaway[last.new].ownerId = last.prin
          /\ Giveaway[last.new].referralCount = 0
          /\ Giveaway[last.new].code = last.uuid

\* C8 witness: a giveaway was created from a body that names another owner,
\* a code and a referralCount
C8_Witness ==
  /\ last.op = "create"
  /\ last.new # 0
  /\ last.x.ownerId \notin {0, last.prin}
  /\ last.x.code # last.uuid
  /\ last.x.referralCount # 0

\* C9: createGiveaway persists nothing and re-shows the form when roomName
\* or channelLink is empty (absent or "").
C9_EmptyFieldsRejected ==
  (last.op = "create" /\ last.body /\ (Falsy(last.a1) \/ Falsy(last.a2)))
    => /\ last.new = 0
       /\ last.resp = Redirect("/create-giveaway")

ValidCredentials(username, password) ==
  \E i \in DOMAIN User :
    User[i].username = username /\ Compare(password, User[i].passwordHash)

LookupFailed == last.resp = ServerError /\ last.user = 0

\* C10: a login issues exactly one proof, which resolves to the user, when
\* the username exists and the password verifies, and none when the user is
\* unknown, the password is wrong or the lookup fails.
C10_ProofIffValid ==
  last.op = "login" =>
    /\ last.proofs = (IF ValidCredentials(last.a1, last.a2) /\ ~LookupFailed
                      THEN 1 ELSE 0)
    /\ last.proofs = 1 =>
         /\ ResolveUser(last.client) = last.user
         /\ last.resp = Redirect("/dashboard")
    /\ (last.proofs = 0 /\ ~LookupFailed /\ variant # "part")
         => last.resp = Redirect("/login")

\* C10 in app.js and server.js alone, where it holds
C10_SessionAndToken == variant # "part" => C10_ProofIffValid

C10_SessionAndTokenWitness ==
  last.op = "login" /\ last.proofs = 1 /\ Cardinality(sessions) = 2
FailedLogins == {"Incorrect username.", "Incorrect password."}

\* C11: a login that fails because the username is unknown and one that
\* fails because the password is wrong get the same response: a redirect to
\* /login, no proof and no change of the client's cookies.
C11_FailuresIndistinguishable ==
  [][(/\ last'.op = "login"
      /\ last'.resp # ServerError
      /\ VerifyInfo(last'.a1, last'.a2) \in FailedLogins)
       => /\ last'.resp = Redirect("/login")
          /\ last'.proofs = 0
          /\ cookie' = cookie]_vars

\* C11 witness: a client that holds a proof fails a login with a known
\* username and a wrong password
C11_Witness ==
  /\ last.op = "login"
  /\ VerifyInfo(last.a1, last.a2) = "Incorrect password."
  /\ last.resp = Redirect("/login")
  /\ cookie[last.client] # NoCookie
Rejected ==
  ~last.body /\ last.user = 0 /\ last.resp = Redirect("/login")

\* C12: in the token variant a request that carries a token issued at time
\* T acts as the token's user when it is made before T + Expiry, and is
\* redirected to /login with no identity when it is made after T + Expiry;
\* a token not signed with JWT_SECRET is rejected at any time.
C12_TokenExpiry ==
  (last.op \in OwnerOnly /\ variant = "server" /\ last.tok # NoToken) =>
    /\ (last.tok.key = Secret /\ last.at < last.tok.iat + Expiry)
         => (last.body /\ last.user = last.tok.id)
    /\ (last.tok.key = Secret /\ last.at > last.tok.iat + Expiry)
         => Rejected
    /\ last.tok.key # Secret => Rejected

\* C12 witness: a dashboard request with a genuine token, made after the
\* token's hour, was sent to /login
C12_Witness ==
  /\ last.op = "dashboard"
  /\ last.tok.key = Secret
  /\ last.at > last.tok.iat + Expiry
  /\ Rejected
\* C13: in the session variant no session whose logout has completed is
\* in the store again, and a dashboard or create-giveaway request that
\* presents the cookie of such a session is redirected to /login, gets no
\* data and creates nothing.
C13_NoReplayAfterLogout ==
  /\ \A s \in sessions : s.sid \notin revoked
  /\ (variant = "app" /\ last.op \in {"dashboard", "create"}
        /\ last.sid \in revoked)
       => (Rejected /\ last.new = 0)

\* C13 witness: a valid create-giveaway request with the cookie of a
\* logged-out session is sent to /login while another session is live
C13_Witness ==
  /\ last.op = "create"
  /\ last.sid \in revoked
  /\ last.a1 = "room" /\ last.a2 = "https://t.me/ch"
  /\ Rejected
  /\ sessions # {}
\* a step of c's join handler that no rejected storage call and no stopped
\* process cut short
Proceeds(c) ==
  /\ req'[c].pc # req[c].pc
  /\ failures' = failures
  /\ restarts' = restarts

\* C14: a join with a non-empty referrerName that overlaps no other join
\* inserts exactly one Referral row with that name and the giveaway's id,
\* also when such a row exists already, and then raises the stored
\* referralCount by exactly 1.
C14_EachJoinCounts ==
  [][\A c \in Clients :
       (req[c].alone /\ ~Falsy(req[c].name) /\ Proceeds(c)) =>
         /\ req[c].pc = "create" =>
              /\ req'[c].pc = "save"
              /\ Referral' = Append(Referral,
                                    [giveawayId |-> req[c].gid,
                                     referrerName |-> req[c].name])
              /\ req'[c].row = Len(Referral')
              /\ Giveaway' = Giveaway
         /\ req[c].pc = "save" =>
              /\ req'[c].pc = "respond"
              /\ Referral' = Referral
              /\ Giveaway' = [Giveaway EXCEPT ![req[c].gid].referralCount =
                                Giveaway[req[c].gid].referralCount + 1]]_vars

\* C14 witness: a join that overlapped no other has written its row and its
\* count; it was the second join of that giveaway under the same name
C14_Witness ==
  \E c \in Clients :
    /\ req[c].pc = "respond"
    /\ req[c].alone
    /\ Giveaway[req[c].gid].referralCount = 2
    /\ \E r \in ReferralsOf(req[c].gid) \ {req[c].row} :
         Referral[r] = Referral[req[c].row]
\* the response that sends the visitor of c's join to the channel
ToChannel(c) ==
  /\ last'.op = "join"
  /\ last'.client = c
  /\ last'.resp = Redirect(Giveaway[req[c].gid].channelLink)

\* C15: a join is answered with the redirect to its giveaway's channelLink
\* only by a handler that has inserted its Referral row and then written
\* the counter, and such a handler answers with nothing else; a handler
\* whose insert or save did not happen never sends that redirect.
C15_RedirectIffBothWrites ==
  [][\A c \in Clients :
       \* the save is the UPDATE, made after the row is in the table
       /\ (req'[c].pc = "respond" /\ req[c].pc # "respond") =>
            /\ req[c].pc = "save"
            /\ req[c].row \in DOMAIN Referral
            /\ Referral[req[c].row].giveawayId = req[c].gid
            /\ Giveaway'[req[c].gid].referralCount = req[c].cnt + 1
       \* after both writes the answer is the redirect to the channel
       /\ (req[c].pc = "respond" /\ req'[c].pc # "respond"
             /\ restarts' = restarts) => ToChannel(c)
       \* a join is answered by a handler before its first write (404 or
       \* the form again) or after its second (the channel)
       /\ (last' # last /\ last'.op = "join" /\ last'.client = c) =>
            \/ /\ req[c].pc = "respond"
               /\ ToChannel(c)
            \/ /\ ~Busy(c)
               /\ last'.new = 0
               /\ last'.resp \in {NotFound, Redirect(JoinFormPath(last'.a1))}
               /\ db' = db]_vars

\* C15 witness: one join was redirected to the channel with its row and a
\* counted referral in the table, another ended on a rejected storage call
\* without any response
C15_Witness ==
  /\ last.op = "join"
  /\ last.resp = Redirect("https://t.me/ch")
  /\ last.new \in DOMAIN Referral
  /\ Giveaway[Referral[last.new].giveawayId].referralCount >= 1
  /\ \E d \in Clients \ {last.client} : req[d].pc = "rejected"
UnknownCode(code) == \A g \in DOMAIN Giveaway : Giveaway[g].code # code

\* C16: the join form and the join of a code that no giveaway has are
\* answered 404 "Giveaway not found." and change nothing: no Referral row,
\* no counter, and no handler goes on towards a write.
C16_UnknownCodeNotFound ==
  [][(/\ last' # last
      /\ last'.op \in {"join", "join-form"}
      /\ UnknownCode(last'.a1))
       => /\ last'.resp = NotFound
          /\ last'.resp.status = "404"
          /\ db' = db
          /\ \A c \in Clients :
               req'[c].pc \in {"create", "save", "respond"}
                 => req'[c] = req[c]]_vars

\* C16 witness: a join with a name, of a code nobody has, was answered 404
\* while the table holds referrals of another giveaway
C16_Witness ==
  /\ last.op = "join"
  /\ UnknownCode(last.a1)
  /\ last.a2 = "bob"
  /\ last.resp = NotFound
  /\ Referral # <<>>
\* C17: a signup with a username that is taken, or with an empty (absent
\* or "") username or password, creates no User and is sent back to
\* /signup; no two User rows have the same username.
C17_SignupValidation ==
  /\ \A i, j \in DOMAIN User : User[i].username = User[j].username => i = j
  /\ \A i \in DOMAIN User : ~Falsy(User[i].username)
  /\ (last.op = "signup" /\ (Falsy(last.a1) \/ Falsy(last.a2)))
       => (last.new = 0 /\ last.resp = Redirect("/signup"))
  /\ (last.op = "signup" /\ last.new = 0)
       => last.resp = Redirect("/signup")

\* the part of C17 that holds: usernames are unique and a signup under a
\* taken username creates nothing
C17_UsernamesUnique ==
  /\ \A i, j \in DOMAIN User : User[i].username = User[j].username => i = j
  /\ (last.op = "signup" /\ last.new # 0)
       => FindUser(last.a1) = last.new
  /\ (last.op = "signup" /\ last.new = 0)
       => last.resp = Redirect("/signup")
\* C18: every started join handler eventually sends its response, also
\* when one of its storage calls rejects.
C18_EveryJoinAnswered ==
  \A c \in Clients : Busy(c) ~> (req[c].pc = "idle")
\* C19: in part_000 a login with valid credentials is answered with the
\* redirect to /dashboard and issues a session that resolves: the next
\* request of that client to an owner-only route passes ensureAuthenticated
\* as that user.
C19_PartLoginResolves ==
  (/\ variant = "part"
   /\ last.op = "login"
   /\ ValidCredentials(last.a1, last.a2)
   /\ ~LookupFailed)
    => /\ last.resp = Redirect("/dashboard")
       /\ last.proofs = 1
       /\ Gate(last.client)
       /\ ResolveUser(last.client) = last.user
\* C20: in every state, whatever the interleaving of join handlers and
\* wherever a handler stopped, a giveaway's stored referralCount is at most
\* the number of its Referral rows.
C20_CounterAtMostRows ==
  \A g \in DOMAIN Giveaway : Giveaway[g].referralCount <= Rows(g)

\* C20 witness: a handler ended between its insert and its save, and a
\* counter that has been saved is two or more behind the rows
C20_Witness ==
  /\ \E c \in Clients :
       /\ req[c].pc \in {"crashed", "rejected"}
       /\ req[c].row \in DOMAIN Referral
  /\ \E g \in DOMAIN Giveaway :
       /\ Giveaway[g].referralCount >= 1
       /\ Giveaway[g].referralCount + 2 <= Rows(g)
====
